---- MODULE Spec2Model ----
(***************************************************************************)
(* Model of mlops/src/data.py: load_data, stratify_split, clean_text,      *)
(* tokenize, preprocess and CustomPreprocessor.                            *)
(*                                                                         *)
(* Strings are sequences of one-character strings, so that the regular     *)
(* expressions of clean_text are modelled character by character.          *)
(***************************************************************************)
EXTENDS Integers, Sequences, FiniteSets, TLC

VARIABLES
    pc,             \* position of the running call
    text,           \* clean_text: the argument text
    stopwords,      \* clean_text: the argument stopwords (a list of strings)
    cleaned,        \* clean_text: the value returned for text
    recleaned,      \* clean_text: the value returned for cleaned
    source,         \* load_data: the rows of the file at dataset_loc
    num_samples,    \* load_data: {} for None, {n} for the integer n
    loaded,         \* load_data: the rows of the dataset returned
    ds,             \* stratify_split: the rows of the argument ds
    test_size,      \* stratify_split: the fraction <<numerator, denominator>>
    shuffle,        \* stratify_split: the argument shuffle
    train_ds,       \* stratify_split: the rows of the first dataset returned
    test_ds,        \* stratify_split: the rows of the second dataset returned
    class_to_index, \* CustomPreprocessor.class_to_index
    index_to_class, \* CustomPreprocessor.index_to_class
    fitted,         \* history: fit has been called on the preprocessor
    arg,            \* fit, transform: the argument ds of the last call
    encoded         \* the batches returned by the last call, if a transform

cleanVars == <<text, stopwords, cleaned, recleaned>>
loadVars  == <<source, num_samples, loaded>>
splitVars == <<ds, test_size, shuffle, train_ds, test_ds>>
prepVars  == <<class_to_index, index_to_class, fitted, arg, encoded>>

vars == <<pc, cleanVars, loadVars, splitVars, prepVars>>

(***************************************************************************)
(* Bounds of the model.                                                    *)
(***************************************************************************)
MaxParts == 4       \* fragments of an input text of clean_text
MaxRows == 4        \* rows of a dataset given to load_data or stratify_split
MaxSamples == 5     \* largest num_samples given to load_data
MaxPrepRows == 2    \* rows of a dataset given to fit or transform

(***************************************************************************)
(* Character classes of Python's re module (ASCII part).                   *)
(***************************************************************************)
LowerLetters ==
    <<"a","b","c","d","e","f","g","h","i","j","k","l","m",
      "n","o","p","q","r","s","t","u","v","w","x","y","z">>

UpperLetters ==
    <<"A","B","C","D","E","F","G","H","I","J","K","L","M",
      "N","O","P","Q","R","S","T","U","V","W","X","Y","Z">>

Digits == {"0","1","2","3","4","5","6","7","8","9"}

Range(s) == {s[i] : i \in 1..Len(s)}

\* [A-Za-z0-9]
Alnum == Range(LowerLetters) \cup Range(UpperLetters) \cup Digits

\* \w : what \b takes for a word character
WordChars == Alnum \cup {"_"}

\* \s
Whitespace == {" ", "\t", "\n", "\r"}

\* the character class of the punctuation pattern; the grave accent, also
\* in the class, cannot be written in a string here and is in no input
Punctuation ==
    {"!","\"","'","#","$","%","&","(",")","*","+",",","-",".","/",":",";",
     "<","=",">","?","@","\\","[","]","^","_","{","|","}","~"}

\* str.lower() on one character
LowerOf ==
    [u \in Range(UpperLetters) |->
        LowerLetters[CHOOSE i \in 1..Len(UpperLetters) : UpperLetters[i] = u]]

LowerChar(c) == IF c \in DOMAIN LowerOf THEN LowerOf[c] ELSE c

\* text.lower()
Lower(s) == [i \in 1..Len(s) |-> LowerChar(s[i])]

\* s[i:].startswith(w), with 1-based i
MatchesAt(s, w, i) ==
    /\ i + Len(w) - 1 <= Len(s)
    /\ \A k \in 1..Len(w) : s[i + k - 1] = w[k]

IsWordAt(s, i) == i >= 1 /\ i <= Len(s) /\ s[i] \in WordChars

\* \b between s[i-1] and s[i]
WordBoundary(s, i) == IsWordAt(s, i - 1) # IsWordAt(s, i)

\* The alternatives of \b(w1|w2|...)\b that match at i, in the order the
\* regex engine tries them.
StopwordAlternatives(s, sw, i) ==
    {k \in 1..Len(sw) :
        /\ WordBoundary(s, i)
        /\ MatchesAt(s, sw[k], i)
        /\ WordBoundary(s, i + Len(sw[k]))}

\* Length of the text matched by \b(w1|w2|...)\b at i, -1 when no match.
StopwordMatchLen(s, sw, i) ==
    LET alts == StopwordAlternatives(s, sw, i)
    IN  IF alts = {} THEN -1
        ELSE Len(sw[CHOOSE k \in alts : \A j \in alts : k <= j])

RECURSIVE SkipWhile(_, _, _)
\* first index >= i whose character is not in class cs (Len(s)+1 if none)
SkipWhile(s, cs, i) ==
    IF i <= Len(s) /\ s[i] \in cs THEN SkipWhile(s, cs, i + 1) ELSE i

RECURSIVE SkipUntil(_, _, _)
\* first index >= i whose character is in class cs (Len(s)+1 if none)
SkipUntil(s, cs, i) ==
    IF i <= Len(s) /\ s[i] \notin cs THEN SkipUntil(s, cs, i + 1) ELSE i

RECURSIVE SubStopwords(_, _, _)
\* pattern.sub(" ", text) with pattern \b(stopwords)\b\s*, scanning from i
SubStopwords(s, sw, i) ==
    IF i > Len(s) THEN <<>>
    ELSE LET n == StopwordMatchLen(s, sw, i)
         IN  IF n > 0
             THEN <<" ">> \o SubStopwords(s, sw, SkipWhile(s, Whitespace, i + n))
             ELSE <<s[i]>> \o SubStopwords(s, sw, i + 1)

RECURSIVE SpacePunctuation(_, _)
\* re.sub(r"([<punctuation>])", r" \1 ", text), scanning from i
SpacePunctuation(s, i) ==
    IF i > Len(s) THEN <<>>
    ELSE (IF s[i] \in Punctuation THEN <<" ", s[i], " ">> ELSE <<s[i]>>)
         \o SpacePunctuation(s, i + 1)

RECURSIVE SubNonAlnum(_, _)
\* re.sub("[^A-Za-z0-9]+", " ", text), scanning from i
SubNonAlnum(s, i) ==
    IF i > Len(s) THEN <<>>
    ELSE IF s[i] \notin Alnum
         THEN <<" ">> \o SubNonAlnum(s, SkipUntil(s, Alnum, i))
         ELSE <<s[i]>> \o SubNonAlnum(s, i + 1)

RECURSIVE SubSpaces(_, _)
\* re.sub(" +", " ", text), scanning from i
SubSpaces(s, i) ==
    IF i > Len(s) THEN <<>>
    ELSE IF s[i] = " "
         THEN <<" ">> \o SubSpaces(s, SkipWhile(s, {" "}, i))
         ELSE <<s[i]>> \o SubSpaces(s, i + 1)

\* text.strip()
Strip(s) ==
    LET first == SkipWhile(s, Whitespace, 1)
        lasts == {j \in 1..Len(s) : s[j] \notin Whitespace}
    IN  IF first > Len(s) THEN <<>>
        ELSE SubSeq(s, first, CHOOSE j \in lasts : \A k \in lasts : k <= j)

Http == <<"h","t","t","p">>

RECURSIVE SubHttp(_, _)
\* re.sub(r"http\S+", "", text), scanning from i
SubHttp(s, i) ==
    IF i > Len(s) THEN <<>>
    ELSE IF /\ MatchesAt(s, Http, i)
            /\ i + 4 <= Len(s)
            /\ s[i + 4] \notin Whitespace
         THEN SubHttp(s, SkipUntil(s, Whitespace, i + 4))
         ELSE <<s[i]>> \o SubHttp(s, i + 1)

\* clean_text(text, stopwords)
clean_text(t, sw) ==
    LET t1 == Lower(t)
        t2 == SubStopwords(t1, sw, 1)
        t3 == SpacePunctuation(t2, 1)
        t4 == SubNonAlnum(t3, 1)
        t5 == SubSpaces(t4, 1)
        t6 == Strip(t5)
    IN  SubHttp(t6, 1)

(***************************************************************************)
(* Inputs of clean_text: texts made of at most MaxParts fragments, and a   *)
(* few stopword lists.                                                     *)
(***************************************************************************)
Fragments ==
    { <<"h","t","t","p">>, <<":","/","/">>, <<"m","e">>, <<"M","e">>,
      <<"x">>, <<" ">>, <<"_">>, <<".">> }

RECURSIVE Concat(_)
Concat(parts) ==
    IF parts = <<>> THEN <<>> ELSE Head(parts) \o Concat(Tail(parts))

Texts ==
    {Concat(parts) :
        parts \in UNION {[1..n -> Fragments] : n \in 0..MaxParts}}

StopwordLists ==
    { << <<"m","e">> >>,
      << <<"m","e">>, <<"x">> >> }

\* The variables of the operations a specification does not run.
IdleClean ==
    text = <<>> /\ stopwords = <<>> /\ cleaned = <<>> /\ recleaned = <<>>

IdleLoad == source = <<>> /\ num_samples = {} /\ loaded = <<>>

IdleSplit ==
    /\ ds = <<>> /\ test_size = <<1, 2>> /\ shuffle = TRUE
    /\ train_ds = <<>> /\ test_ds = <<>>

IdlePrep ==
    /\ class_to_index = <<>> /\ index_to_class = <<>>
    /\ fitted = FALSE /\ arg = <<>> /\ encoded = <<>>

InitClean ==
    /\ pc = "clean_text"
    /\ text \in Texts
    /\ stopwords \in StopwordLists
    /\ cleaned = <<>>
    /\ recleaned = <<>>
    /\ IdleLoad /\ IdleSplit /\ IdlePrep

\* cleaned = clean_text(text)
Clean ==
    /\ pc = "clean_text"
    /\ cleaned' = clean_text(text, stopwords)
    /\ pc' = "cleaned"
    /\ UNCHANGED <<text, stopwords, recleaned, loadVars, splitVars, prepVars>>

\* recleaned = clean_text(cleaned)
CleanAgain ==
    /\ pc = "cleaned"
    /\ recleaned' = clean_text(cleaned, stopwords)
    /\ pc' = "recleaned"
    /\ UNCHANGED <<text, stopwords, cleaned, loadVars, splitVars, prepVars>>

NextClean == Clean \/ CleanAgain

SpecClean == InitClean /\ [][NextClean]_vars

(***************************************************************************)
(* Datasets.  A row is a function from column names to values; a dataset   *)
(* is the sequence of its rows.                                            *)
(***************************************************************************)
Tags == {"cv", "nlp", "other"}

\* the order in which groupby sorts the keys
TagOrder == <<"cv", "nlp", "other">>

Row(i, tag) == [c \in {"id", "tag"} |-> IF c = "id" THEN i ELSE tag]

\* the datasets of n rows: row i has id i
Datasets(n) == {[i \in 1..n |-> Row(i, tg[i])] : tg \in [1..n -> Tags]}

\* the orders a seeded random_shuffle can leave the rows of s in
random_shuffle(s) ==
    LET n == Len(s)
    IN  {[i \in 1..n |-> s[p[i]]] :
            p \in {q \in [1..n -> 1..n] : \A i, j \in 1..n : q[i] = q[j] => i = j}}

Min(a, b) == IF a <= b THEN a ELSE b

(***************************************************************************)
(* load_data                                                               *)
(***************************************************************************)
\* truth value of num_samples: None and 0 are false
Truthy(ns) == \E n \in ns : n # 0

\* ds.take(limit): the first limit rows
Take(s, limit) == SubSeq(s, 1, Min(limit, Len(s)))

\* the datasets load_data can return
load_data(src, ns) ==
    {IF Truthy(ns) THEN Take(shuffled, CHOOSE n \in ns : TRUE) ELSE shuffled :
        shuffled \in random_shuffle(src)}

InitLoad ==
    /\ pc = "load_data"
    /\ source \in UNION {Datasets(n) : n \in 0..MaxRows}
    /\ num_samples \in {{}} \cup {{n} : n \in 0..MaxSamples}
    /\ loaded = <<>>
    /\ IdleClean /\ IdleSplit /\ IdlePrep

Load ==
    /\ pc = "load_data"
    /\ loaded' \in load_data(source, num_samples)
    /\ pc' = "loaded"
    /\ UNCHANGED <<source, num_samples, cleanVars, splitVars, prepVars>>

NextLoad == Load

SpecLoad == InitLoad /\ [][NextLoad]_vars

(***************************************************************************)
(* stratify_split                                                          *)
(***************************************************************************)
\* the fractions given as test_size, <<numerator, denominator>>
TestSizes == {<<1, 5>>, <<1, 2>>, <<3, 4>>}

\* ceil(ts * n)
Ceil(ts, n) == (ts[1] * n + ts[2] - 1) \div ts[2]

\* sklearn's sizes for n samples and a float test_size, train_size=None
NTest(n, ts) == Ceil(ts, n)
NTrain(n, ts) == n - NTest(n, ts)

\* train_test_split raises ValueError: test_size outside (0, 1), or the
\* resulting train set would be empty
SplitRaises(df, ts) ==
    \/ ts[1] <= 0
    \/ ts[1] >= ts[2]
    \/ NTrain(Len(df), ts) = 0

\* train_test_split(df, test_size=ts, shuffle=sh, random_state=seed): the
\* pairs <<train, test>> it can return
train_test_split(df, ts, sh) ==
    LET n == Len(df)
        ntest == NTest(n, ts)
        ntrain == NTrain(n, ts)
    IN  IF sh
        THEN {<<SubSeq(p, ntest + 1, ntest + ntrain), SubSeq(p, 1, ntest)>> :
                p \in random_shuffle(df)}
        ELSE {<<SubSeq(df, 1, ntrain), SubSeq(df, ntrain + 1, ntrain + ntest)>>}

\* df["_split"] = label
SetSplit(df, label) ==
    [i \in 1..Len(df) |->
        [c \in DOMAIN df[i] \cup {"_split"} |->
            IF c = "_split" THEN label ELSE df[i][c]]]

\* _add_split(df): the frames it can return
_add_split(df, ts, sh) ==
    {SetSplit(pair[1], "train") \o SetSplit(pair[2], "test") :
        pair \in train_test_split(df, ts, sh)}

\* _filter_split(df, split)
_filter_split(df, split) ==
    LET InSplit(r) == r["_split"] = split
        kept == SelectSeq(df, InSplit)
    IN  [i \in 1..Len(kept) |->
            [c \in DOMAIN kept[i] \ {"_split"} |-> kept[i][c]]]

\* the rows of d whose stratify column holds key
Group(d, key) ==
    LET HasKey(r) == r["tag"] = key
    IN  SelectSeq(d, HasKey)

RECURSIVE map_groups(_, _, _, _)
\* ds.groupby(stratify).map_groups(_add_split), from the i-th key on: the
\* datasets it can give
map_groups(d, ts, sh, i) ==
    IF i > Len(TagOrder) THEN {<<>>}
    ELSE LET g == Group(d, TagOrder[i])
             rest == map_groups(d, ts, sh, i + 1)
         IN  IF g = <<>> THEN rest
             ELSE {a \o r : a \in _add_split(g, ts, sh), r \in rest}

\* _add_split raises for one of the groups
GroupRaises(d, ts) ==
    \E key \in Tags : Group(d, key) # <<>> /\ SplitRaises(Group(d, key), ts)

\* stratify_split(ds, "tag", test_size, shuffle): the pairs
\* <<train_ds, test_ds>> it can return
stratify_split(d, ts, sh) ==
    UNION {
        {<<tr, te>> :
            tr \in random_shuffle(_filter_split(grouped, "train")),
            te \in random_shuffle(_filter_split(grouped, "test"))} :
        grouped \in map_groups(d, ts, sh, 1)}

InitSplit ==
    /\ pc = "stratify_split"
    /\ ds \in UNION {Datasets(n) : n \in 1..MaxRows}
    /\ test_size \in TestSizes
    /\ shuffle \in BOOLEAN
    /\ train_ds = <<>>
    /\ test_ds = <<>>
    /\ IdleClean /\ IdleLoad /\ IdlePrep

\* stratify_split(ds, "tag", test_size, shuffle), run to the end: the
\* engine runs _add_split when the datasets are read, and an exception
\* raised for one group fails the whole split
StratifySplit ==
    /\ pc = "stratify_split"
    /\ IF GroupRaises(ds, test_size)
       THEN /\ pc' = "raised"
            /\ UNCHANGED <<train_ds, test_ds>>
       ELSE /\ \E res \in stratify_split(ds, test_size, shuffle) :
                 /\ train_ds' = res[1]
                 /\ test_ds' = res[2]
            /\ pc' = "split"
    /\ UNCHANGED <<ds, test_size, shuffle, cleanVars, loadVars, prepVars>>

NextSplit == StratifySplit

SpecSplit == InitSplit /\ [][NextSplit]_vars

(***************************************************************************)
(* tokenize, preprocess                                                    *)
(***************************************************************************)
\* src.config.STOPWORDS
STOPWORDS == << <<"m","e">> >>

\* the rows of the batches: title, description and tag (id and created_on
\* are dropped unread)
Corpus ==
    { [title |-> <<"M","e">>, description |-> <<"x",".">>, tag |-> "nlp"],
      [title |-> <<"h","t","t","p","x">>, description |-> <<"m","e">>, tag |-> "cv"],
      [title |-> <<"x">>, description |-> <<"x","_","x">>, tag |-> "other"] }

RECURSIVE Words(_, _)
\* the whitespace-separated words of s, from index i on
Words(s, i) ==
    LET b == SkipWhile(s, Whitespace, i)
        e == SkipUntil(s, Whitespace, b)
    IN  IF b > Len(s) THEN <<>> ELSE <<SubSeq(s, b, e - 1)>> \o Words(s, e)

CLS == <<"[","C","L","S","]">>
SEP == <<"[","S","E","P","]">>
PAD == <<"[","P","A","D","]">>

\* the tokenizer on one text: [CLS], one token for each word, [SEP]
Encode(s) == <<CLS>> \o Words(s, 1) \o <<SEP>>

Longest(seqs) ==
    IF seqs = <<>> THEN 0
    ELSE LET lens == {Len(seqs[i]) : i \in 1..Len(seqs)}
         IN  CHOOSE m \in lens : \A k \in lens : k <= m

\* tokenizer(texts, return_tensors="np", padding="longest")
Tokenizer(texts) ==
    LET toks == [i \in 1..Len(texts) |-> Encode(texts[i])]
        width == Longest(toks)
    IN  [input_ids |->
            [i \in 1..Len(texts) |->
                [j \in 1..width |->
                    IF j <= Len(toks[i]) THEN toks[i][j] ELSE PAD]],
         attention_mask |->
            [i \in 1..Len(texts) |->
                [j \in 1..width |-> IF j <= Len(toks[i]) THEN 1 ELSE 0]]]

\* tokenize(batch): batch has the columns text and tag
tokenize(batch) ==
    LET encoded_inputs == Tokenizer([i \in 1..Len(batch) |-> batch[i].text])
    IN  [ids |-> encoded_inputs.input_ids,
         masks |-> encoded_inputs.attention_mask,
         targets |-> [i \in 1..Len(batch) |-> batch[i].tag]]

\* df["tag"].map(class_to_index): {i} for the index i, {} for the missing
\* value of a tag the mapping lacks
MapTag(tag, c2i) == IF tag \in DOMAIN c2i THEN {c2i[tag]} ELSE {}

\* preprocess that drops the rows whose tag the mapping lacks from the
\* targets
preprocess_dropna(df, c2i) ==
    LET Mapped(r) == r.tag \in DOMAIN c2i
        kept == SelectSeq(df, Mapped)
        out == tokenize([i \in 1..Len(df) |->
                 [text |-> clean_text(
                              df[i].title \o <<" ">> \o df[i].description,
                              STOPWORDS),
                  tag |-> MapTag(df[i].tag, c2i)]])
    IN  [ids |-> out.ids,
         masks |-> out.masks,
         targets |-> [i \in 1..Len(kept) |-> MapTag(kept[i].tag, c2i)]]

\* preprocess(df, class_to_index)
preprocess(df, c2i) ==
    tokenize([i \in 1..Len(df) |->
        [text |-> clean_text(df[i].title \o <<" ">> \o df[i].description,
                             STOPWORDS),
         tag |-> MapTag(df[i].tag, c2i)]])

(***************************************************************************)
(* CustomPreprocessor                                                      *)
(***************************************************************************)
\* the empty dict
EmptyDict == [t \in {} |-> 0]

\* {v: k for k, v in d.items()}, for d with distinct values
InvertDict(d) ==
    [v \in {d[k] : k \in DOMAIN d} |-> CHOOSE k \in DOMAIN d : d[k] = v]

\* EnumerateDict with the indices counted from 1
EnumerateDictFromOne(tags) ==
    [t \in Range(tags) |->
        CHOOSE i \in 1..Len(tags) :
            tags[i] = t /\ \A j \in 1..Len(tags) : tags[j] = t => j <= i]

\* {tag: i for i, tag in enumerate(tags)}: a later entry replaces an
\* earlier one with the same key
EnumerateDict(tags) ==
    [t \in Range(tags) |->
        (CHOOSE i \in 1..Len(tags) :
            tags[i] = t /\ \A j \in 1..Len(tags) : tags[j] = t => j <= i) - 1]

\* the rows of a dataset, batch after batch
Rows(d) == Concat(d)

\* ds.unique(column="tag"): the distinct tags, in any order
Unique(d) ==
    LET distinct == {Rows(d)[i].tag : i \in 1..Len(Rows(d))}
    IN  {tags \in [1..Cardinality(distinct) -> distinct] :
            Range(tags) = distinct}

\* the sequences of at most n elements of S
SeqsUpTo(S, n) == UNION {[1..k -> S] : k \in 0..n}

RECURSIVE Batchings(_)
\* the ways the engine can cut the rows into non-empty batches
Batchings(rows) ==
    IF rows = <<>> THEN {<<>>}
    ELSE UNION {
            {<<SubSeq(rows, 1, k)>> \o rest :
                rest \in Batchings(SubSeq(rows, k + 1, Len(rows)))} :
            k \in 1..Len(rows)}

\* the datasets given to fit and transform: sequences of non-empty batches
\* of rows, MaxPrepRows rows at most
PrepDatasets == UNION {Batchings(rows) : rows \in SeqsUpTo(Corpus, MaxPrepRows)}

\* the class_to_index arguments given to __init__
InitMappings ==
    {EmptyDict, [t \in {"nlp"} |-> 0],
     [t \in {"cv", "nlp"} |-> IF t = "nlp" THEN 0 ELSE 1]}

\* CustomPreprocessor(class_to_index)
InitPrep ==
    /\ pc = "constructed"
    /\ class_to_index \in InitMappings
    /\ index_to_class = InvertDict(class_to_index)
    /\ fitted = FALSE
    /\ arg = <<>>
    /\ encoded = <<>>
    /\ IdleClean /\ IdleLoad /\ IdleSplit

\* fit(ds)
Fit(d) ==
    /\ \E tags \in Unique(d) :
        /\ class_to_index' = EnumerateDict(tags)
        /\ index_to_class' = InvertDict(EnumerateDict(tags))
    /\ fitted' = TRUE
    /\ arg' = d
    /\ encoded' = <<>>
    /\ pc' = "fit"
    /\ UNCHANGED <<cleanVars, loadVars, splitVars>>

\* transform that fits the mapping on the dataset it is given
TransformRefit(d) ==
    /\ \E tags \in Unique(d) :
        /\ class_to_index' = EnumerateDict(tags)
        /\ index_to_class' = InvertDict(EnumerateDict(tags))
        /\ encoded' = [i \in 1..Len(d) |-> preprocess(d[i], EnumerateDict(tags))]
    /\ arg' = d
    /\ pc' = "transform"
    /\ UNCHANGED fitted
    /\ UNCHANGED <<cleanVars, loadVars, splitVars>>

\* transform(ds): preprocess on every batch
Transform(d) ==
    /\ encoded' = [i \in 1..Len(d) |-> preprocess(d[i], class_to_index)]
    /\ arg' = d
    /\ pc' = "transform"
    /\ UNCHANGED <<class_to_index, index_to_class, fitted>>
    /\ UNCHANGED <<cleanVars, loadVars, splitVars>>

NextPrep == \E d \in PrepDatasets : Fit(d) \/ Transform(d)

SpecPrep == InitPrep /\ [][NextPrep]_vars

(***************************************************************************)
(* Properties                                                              *)
(***************************************************************************)
\* s has t as a contiguous subsequence
Contains(s, t) == \E i \in 1..Len(s) : MatchesAt(s, t, i)

\* C1: clean_text is idempotent: cleaning the cleaned text gives the
\* cleaned text again.
C1_Idempotent == pc = "recleaned" => recleaned = cleaned

\* C5: no token of the output of clean_text, split on spaces, is a
\* stopword.
C5_NoStopwordToken ==
    pc = "cleaned" => \A w \in Range(Words(cleaned, 1)) : w \notin Range(stopwords)

\* a whitespace-free token that starts with "http" and goes on
IsUrl(w) == Len(w) > Len(Http) /\ MatchesAt(w, Http, 1)

\* C6: clean_text strips URLs: when every token of the input that holds
\* "http" is a whitespace-free token starting with "http" and going on, no
\* "http" is left in the output, and a token that is exactly "http" is
\* left in place.
C6_UrlStripped ==
    pc = "cleaned" =>
        /\ (\A w \in Range(Words(text, 1)) : Contains(w, Http) => IsUrl(w))
                => ~Contains(cleaned, Http)
        /\ Http \in Range(Words(text, 1)) => Http \in Range(Words(cleaned, 1))

\* C9: the output of clean_text has no leading space, no trailing space and
\* no two consecutive spaces.
C9_Normalized ==
    pc = "cleaned" =>
        /\ cleaned # <<>> => cleaned[1] # " " /\ cleaned[Len(cleaned)] # " "
        /\ ~Contains(cleaned, <<" ", " ">>)

\* C7: load_data returns min(n, N) rows of the source when a sample count
\* n >= 0 is given, and all N rows when none is given.
C7_Truncates ==
    pc = "loaded" =>
        /\ Range(loaded) \subseteq Range(source)
        /\ \A n \in num_samples : Len(loaded) = Min(n, Len(source))
        /\ num_samples = {} => Len(loaded) = Len(source)

\* the number of rows of d whose tag is key
Count(d, key) == Len(Group(d, key))

\* C2: for every class present, the split succeeds, the number of the
\* class's rows in the test set differs from test_size * n by less than 1,
\* and the rest of its n rows are in the train set.
C2_Stratified ==
    pc # "stratify_split" =>
        /\ pc = "split"
        /\ \A key \in Tags :
            LET n == Count(ds, key)
                k == Count(test_ds, key)
                diff == k * test_size[2] - test_size[1] * n
            IN  /\ diff < test_size[2]
                /\ -diff < test_size[2]
                /\ Count(train_ds, key) = n - k

\* C10: the split succeeds and every input row is in exactly one of the
\* two outputs, which hold no other row and no _split column.
C10_Partition ==
    pc # "stratify_split" =>
        /\ pc = "split"
        /\ LET out == train_ds \o test_ds
           IN  /\ Range(out) = Range(ds)
               /\ Len(out) = Len(ds)
               /\ \A i \in 1..Len(out) : "_split" \notin DOMAIN out[i]

\* the tags of the rows of a dataset
TagsOf(d) == {Rows(d)[i].tag : i \in 1..Len(Rows(d))}

\* C3: once fit has been called, class_to_index maps the k distinct tags
\* of the fitted dataset one-to-one onto 0..k-1 and index_to_class is its
\* inverse, also after later fit and transform calls.
C3_Bijection ==
    fitted =>
        LET k == Cardinality(DOMAIN class_to_index)
        IN  /\ pc = "fit" => DOMAIN class_to_index = TagsOf(arg)
            /\ {class_to_index[t] : t \in DOMAIN class_to_index} = 0..(k - 1)
            /\ DOMAIN index_to_class = 0..(k - 1)
            /\ \A t \in DOMAIN class_to_index :
                    index_to_class[class_to_index[t]] = t
            /\ \A i \in 0..(k - 1) : class_to_index[index_to_class[i]] = i

\* a fit on two distinct tags, followed by a transform
C3_Witness ==
    /\ fitted
    /\ pc = "transform"
    /\ Cardinality(DOMAIN class_to_index) = 2
    /\ encoded # <<>>

\* C4 as stated: once fit has been called, no later call changes
\* class_to_index or index_to_class.
C4_Immutable ==
    [][fitted => UNCHANGED <<class_to_index, index_to_class>>]_vars

\* C4 as amended: once fit has been called, only a further fit call
\* changes class_to_index or index_to_class; a transform call leaves both
\* as they were.
C4_OnlyFitChanges ==
    [][(fitted /\ <<class_to_index, index_to_class>>' # <<class_to_index, index_to_class>>)
            => pc' = "fit"]_vars

\* a transform on a fitted preprocessor whose mapping is not empty
C4_Witness ==
    /\ fitted
    /\ pc = "transform"
    /\ class_to_index # EmptyDict
    /\ encoded # <<>>

\* C8: for every batch given to preprocess, ids, masks and targets have as
\* many entries as the batch has rows, and the target of a row whose tag
\* the mapping lacks is the missing value.
C8_BatchDims ==
    pc = "transform" =>
        /\ Len(encoded) = Len(arg)
        /\ \A b \in 1..Len(arg) :
            /\ Len(encoded[b].ids) = Len(arg[b])
            /\ Len(encoded[b].masks) = Len(arg[b])
            /\ Len(encoded[b].targets) = Len(arg[b])
            /\ \A i \in 1..Len(arg[b]) :
                   encoded[b].targets[i] = MapTag(arg[b][i].tag, class_to_index)

\* a batch with a mapped and an unmapped tag, under a mapping that is not
\* empty
C8_Witness ==
    /\ pc = "transform"
    /\ class_to_index # EmptyDict
    /\ \E b \in 1..Len(arg) :
        /\ \E i \in 1..Len(arg[b]) : encoded[b].targets[i] = {}
        /\ \E i \in 1..Len(arg[b]) : encoded[b].targets[i] # {}

====
